---- MODULE Spec2Model ----
(***************************************************************************)
(* A model of src/src/Giiker.js: the Giiker cube driver.                   *)
(*                                                                         *)
(* JavaScript values are represented as follows.                           *)
(*   - an array is a sequence; the JS index i is the TLA+ index i + 1;     *)
(*   - a DataView / Uint8Array is a sequence of bytes 0..255;              *)
(*   - a base64 string (characteristic.value) and the joined facelet       *)
(*     string are sequences of one-character strings;                      *)
(*   - `undefined` where a string is expected is the string "undefined"    *)
(*     (what a template literal prints for it), and where a number is      *)
(*     expected it is undefinedAmount;                                     *)
(*   - the object literal {} is the empty function <<>>;                   *)
(*   - a call's outcome is [error |-> "none", value |-> v] when it returns *)
(*     v and [error |-> "TypeError"] when it throws.                       *)
(***************************************************************************)
EXTENDS Integers, Sequences, FiniteSets, TLC

VARIABLES
    pc,                   \* position of the driver / of the call under study
    _state,               \* this._state
    _isConnected,         \* this._isConnected
    connected,            \* this.connected
    _firstStateFlag,      \* this._firstStateFlag
    valuedCharacteristic, \* valuedCharacteristic.value, captured by the monitor callback
    emitted,              \* the calls of this.emit, in order: <<label, args>>
    notifications,        \* the notifications delivered to the monitor callback, in order
    args,                 \* arguments of the function under study
    result,               \* what that function returned
    ops                   \* number of changes applied to the cube so far

vars == <<pc, _state, _isConnected, connected, _firstStateFlag,
          valuedCharacteristic, emitted, notifications, args, result, ops>>

driverVars == <<_isConnected, connected, _firstStateFlag,
                valuedCharacteristic, emitted, notifications>>

-----------------------------------------------------------------------------
(* Bounds of the model *)

\* number of notifications delivered to the monitor callback
MaxNotifications == 3

\* number of piece swaps / twists / flips applied to a cube
MaxOps == 1

\* longest frame decoded in FrameSpec (16 state bytes + move log)
MaxFrameLen == 18

-----------------------------------------------------------------------------
(* Static tables, Giiker.js lines 25-102 *)

undefined == "undefined"

undefinedAmount == 0

B == 0
D == 1
L == 2
U == 3
R == 4
F == 5

faces == <<"B", "D", "L", "U", "R", "F">>

b == 0
y == 1
o == 2
w == 3
r == 4
g == 5

colors == <<"blue", "yellow", "orange", "white", "red", "green">>

turns(key) ==
    CASE key = 0 -> 1
      [] key = 1 -> 2
      [] key = 2 -> -1
      [] key = 8 -> -2
      [] OTHER -> undefinedAmount

\* cornerColors with the first two colours of corner 1 transposed
cornerColorsTransposed ==
    << <<r, y, g>>, <<r, w, g>>, <<w, o, g>>, <<o, y, g>>,
       <<r, y, b>>, <<w, r, b>>, <<o, w, b>>, <<y, o, b>> >>

cornerColors ==
    << <<y, r, g>>, <<r, w, g>>, <<w, o, g>>, <<o, y, g>>,
       <<r, y, b>>, <<w, r, b>>, <<o, w, b>>, <<y, o, b>> >>

cornerLocations ==
    << <<D, R, F>>, <<R, U, F>>, <<U, L, F>>, <<L, D, F>>,
       <<R, D, B>>, <<U, R, B>>, <<L, U, B>>, <<D, L, B>> >>

edgeLocations ==
    << <<F, D>>, <<F, R>>, <<F, U>>, <<F, L>>, <<D, R>>, <<U, R>>,
       <<U, L>>, <<D, L>>, <<B, D>>, <<B, R>>, <<B, U>>, <<B, L>> >>

edgeColors ==
    << <<g, y>>, <<g, r>>, <<g, w>>, <<g, o>>, <<y, r>>, <<w, r>>,
       <<w, o>>, <<y, o>>, <<b, y>>, <<b, r>>, <<b, w>>, <<b, o>> >>

\* arr[i] of a JS array of strings: undefined outside 0..length-1
At(arr, i) == IF i \in 0..(Len(arr) - 1) THEN arr[i + 1] ELSE undefined

\* whether arr[i] of a JS array is defined
Has(arr, i) == i \in 0..(Len(arr) - 1)

Returns(v) == [error |-> "none", value |-> v]

Throws(e) == [error |-> e]

-----------------------------------------------------------------------------
(* _parseMove, Giiker.js lines 356-368 *)

\* _parseMove with the prime of case -2 lost
_parseMoveLostPrime(faceIndex, turnIndex) ==
    LET face == At(faces, faceIndex - 1)
        amount == turns(turnIndex - 1)
        notation == CASE amount = 2 -> face \o "2"
                      [] amount = -1 -> face \o "'"
                      [] amount = -2 -> face \o "2"
                      [] OTHER -> face
    IN  [face |-> face, amount |-> amount, notation |-> notation]

_parseMove(faceIndex, turnIndex) ==
    LET face == At(faces, faceIndex - 1)
        amount == turns(turnIndex - 1)
        notation == CASE amount = 2 -> face \o "2"
                      [] amount = -1 -> face \o "'"
                      [] amount = -2 -> face \o "2'"
                      [] OTHER -> face
    IN  [face |-> face, amount |-> amount, notation |-> notation]

-----------------------------------------------------------------------------
(* _parseCubeValue, Giiker.js lines 316-354 *)

\* !(move & mask): one negation instead of two
BitNegated(move, mask) == (move \div mask) % 2 = 0

\* !!(move & mask) for a one-bit mask
Bit(move, mask) == (move \div mask) % 2 = 1

\* the body of the for loop, for byte i of value
ParseByte(value, i, acc) ==
    LET move == value[i + 1]
        highNibble == move \div 16
        lowNibble == move % 16
        st == acc.state
    IN  IF i < 4 THEN
            [acc EXCEPT !.state.cornerPositions =
                            st.cornerPositions \o <<highNibble, lowNibble>>]
        ELSE IF i < 8 THEN
            [acc EXCEPT !.state.cornerOrientations =
                            st.cornerOrientations \o <<highNibble, lowNibble>>]
        ELSE IF i < 14 THEN
            [acc EXCEPT !.state.edgePositions =
                            st.edgePositions \o <<highNibble, lowNibble>>]
        ELSE IF i < 16 THEN
            [acc EXCEPT !.state.edgeOrientations =
                st.edgeOrientations
                    \o <<Bit(move, 128), Bit(move, 64), Bit(move, 32), Bit(move, 16)>>
                    \o (IF i = 14
                        THEN <<Bit(move, 8), Bit(move, 4), Bit(move, 2), Bit(move, 1)>>
                        ELSE <<>>)]
        ELSE
            [acc EXCEPT !.moves = acc.moves \o <<_parseMove(highNibble, lowNibble)>>]

RECURSIVE ParseLoop(_, _, _)
ParseLoop(value, i, acc) ==
    IF i < Len(value) THEN ParseLoop(value, i + 1, ParseByte(value, i, acc)) ELSE acc

_parseCubeValue(value) ==
    ParseLoop(value, 0,
              [state |-> [cornerPositions |-> <<>>, cornerOrientations |-> <<>>,
                          edgePositions |-> <<>>, edgeOrientations |-> <<>>],
               moves |-> <<>>])

-----------------------------------------------------------------------------
(* _mapCornerColors and _mapEdgeColors, Giiker.js lines 370-406 *)

\* the parity correction without its guard orientation !== 3
CorrectedOrientationUnguarded(orientation, position) ==
    IF position \in {0, 2, 5, 7} THEN 3 - orientation ELSE orientation

\* the orientation the switch sees, lines 373-377
CorrectedOrientation(orientation, position) ==
    IF orientation # 3 /\ position \in {0, 2, 5, 7} THEN 3 - orientation ELSE orientation

_mapCornerColors(cols, orientation, position) ==
    LET corrected == CorrectedOrientation(orientation, position)
    IN  CASE corrected = 1 -> <<cols[2], cols[3], cols[1]>>
          [] corrected = 2 -> <<cols[3], cols[1], cols[2]>>
          [] corrected = 3 -> <<cols[1], cols[2], cols[3]>>
          [] OTHER -> <<>>

\* Array.prototype.reverse
Reverse(arr) == [i \in 1..Len(arr) |-> arr[Len(arr) + 1 - i]]

_mapEdgeColors(cols, orientation) ==
    IF orientation THEN Reverse(cols) ELSE cols

-----------------------------------------------------------------------------
(* get state, Giiker.js lines 431-458 *)

\* this._state.cornerOrientations[index] is defined and selects a case of the switch
HitsCase(s, index) ==
    /\ Has(s.cornerOrientations, index)
    /\ CorrectedOrientation(s.cornerOrientations[index + 1], index) \in {1, 2, 3}

\* the callback of cornerPositions.forEach throws a TypeError: colors[1] of an
\* undefined home colour list, or .map of an undefined cornerLocations[index]
CornerThrows(s, index) ==
    \/ ~Has(cornerLocations, index)
    \/ ~Has(cornerColors, s.cornerPositions[index + 1] - 1) /\ HitsCase(s, index)

\* the callback of edgePositions.forEach throws a TypeError: the spread of an
\* undefined home colour list, or .map of an undefined edgeLocations[index]
EdgeThrows(s, index) ==
    \/ ~Has(edgeLocations, index)
    \/ ~Has(edgeColors, s.edgePositions[index + 1] - 1)

ProjectedCorner(s, index) ==
    LET cp == s.cornerPositions[index + 1]
        mappedColors ==
            IF HitsCase(s, index)
            THEN _mapCornerColors(cornerColors[cp], s.cornerOrientations[index + 1], index)
            ELSE <<>>
    IN  [position |-> [k \in 1..3 |-> faces[cornerLocations[index + 1][k] + 1]],
         colors |-> [k \in DOMAIN mappedColors |-> colors[mappedColors[k] + 1]]]

ProjectedEdge(s, index) ==
    LET ep == s.edgePositions[index + 1]
        mappedColors ==
            _mapEdgeColors(edgeColors[ep],
                           Has(s.edgeOrientations, index) /\ s.edgeOrientations[index + 1])
    IN  [position |-> [k \in 1..2 |-> faces[edgeLocations[index + 1][k] + 1]],
         colors |-> [k \in DOMAIN mappedColors |-> colors[mappedColors[k] + 1]]]

state(s) ==
    IF DOMAIN s = {} THEN Throws("TypeError")
    ELSE IF \E index \in 0..(Len(s.cornerPositions) - 1) : CornerThrows(s, index)
    THEN Throws("TypeError")
    ELSE IF \E index \in 0..(Len(s.edgePositions) - 1) : EdgeThrows(s, index)
    THEN Throws("TypeError")
    ELSE Returns([corners |-> [n \in 1..Len(s.cornerPositions) |-> ProjectedCorner(s, n - 1)],
                  edges |-> [n \in 1..Len(s.edgePositions) |-> ProjectedEdge(s, n - 1)]])

-----------------------------------------------------------------------------
(* get stateString, Giiker.js lines 465-524 *)

cornerFaceIndices ==
    << <<29, 15, 26>>, <<9, 8, 20>>, <<6, 38, 18>>, <<44, 27, 24>>,
       <<17, 35, 51>>, <<2, 11, 45>>, <<36, 0, 47>>, <<33, 42, 53>> >>

edgeFaceIndices ==
    << <<25, 28>>, <<23, 12>>, <<19, 7>>, <<21, 41>>, <<32, 16>>, <<5, 10>>,
       <<3, 37>>, <<30, 43>>, <<52, 34>>, <<48, 14>>, <<46, 1>>, <<50, 39>> >>

colorFaceMapping(color) ==
    CASE color = "blue" -> "B"
      [] color = "yellow" -> "D"
      [] color = "orange" -> "L"
      [] color = "white" -> "U"
      [] color = "red" -> "R"
      [] color = "green" -> "F"
      [] OTHER -> undefined

\* faces[4] = 'U' ... faces[49] = 'B', lines 516-521
centerFaces(idx) ==
    CASE idx = 4 -> "U"
      [] idx = 13 -> "R"
      [] idx = 22 -> "F"
      [] idx = 31 -> "D"
      [] idx = 40 -> "L"
      [] idx = 49 -> "B"
      [] OTHER -> undefined

\* the assignments to the local array `faces`, in program order: the nested
\* forEach over the corners, the one over the edges, then the six centres
CornerAssignments ==
    [n \in 1..24 |->
        [kind |-> "corner", piece |-> ((n - 1) \div 3) + 1, face |-> ((n - 1) % 3) + 1,
         index |-> cornerFaceIndices[((n - 1) \div 3) + 1][((n - 1) % 3) + 1]]]

EdgeAssignments ==
    [n \in 1..24 |->
        [kind |-> "edge", piece |-> ((n - 1) \div 2) + 1, face |-> ((n - 1) % 2) + 1,
         index |-> edgeFaceIndices[((n - 1) \div 2) + 1][((n - 1) % 2) + 1]]]

CenterAssignments ==
    [n \in 1..6 |->
        [kind |-> "center", piece |-> n, face |-> 1, index |-> <<4, 13, 22, 31, 40, 49>>[n]]]

Assignments == CornerAssignments \o EdgeAssignments \o CenterAssignments

\* the assignments to faces[idx], in program order
AssignmentsTo == [idx \in 0..53 |-> SelectSeq(Assignments, LAMBDA a : a.index = idx)]

\* the assignment is executed: its piece is one the forEach visits
Executed(projected, a) ==
    CASE a.kind = "corner" -> a.piece <= Len(projected.corners)
      [] a.kind = "edge" -> a.piece <= Len(projected.edges)
      [] OTHER -> TRUE

\* the value the assignment stores
Assigned(projected, a) ==
    CASE a.kind = "corner" ->
            colorFaceMapping(At(projected.corners[a.piece].colors, a.face - 1))
      [] a.kind = "edge" ->
            colorFaceMapping(At(projected.edges[a.piece].colors, a.face - 1))
      [] OTHER -> centerFaces(a.index)

\* faces[idx] after all the assignments: what the last one to it stored
Facelet(projected, idx) ==
    LET done == SelectSeq(AssignmentsTo[idx], LAMBDA a : Executed(projected, a))
    IN  IF done = <<>> THEN undefined ELSE Assigned(projected, done[Len(done)])

\* faces.length: one more than the largest index assigned
FaceletLength(projected) ==
    LET written == {idx \in 0..53 :
                        \E n \in DOMAIN AssignmentsTo[idx] :
                            Executed(projected, AssignmentsTo[idx][n])}
    IN  1 + CHOOSE top \in written : \A idx \in written : idx <= top

\* faces.join(''): an undefined element contributes the empty string
Join(projected) ==
    SelectSeq([n \in 1..FaceletLength(projected) |-> Facelet(projected, n - 1)],
              LAMBDA c : c # undefined)

stateString(s) ==
    LET got == state(s)
    IN  IF got.error # "none" THEN got ELSE Returns(Join(got.value))

-----------------------------------------------------------------------------
(* Base64.decode of base64-arraybuffer, as called at lines 209 and 230 *)

chars ==
    << "A", "B", "C", "D", "E", "F", "G", "H", "I", "J", "K", "L", "M",
       "N", "O", "P", "Q", "R", "S", "T", "U", "V", "W", "X", "Y", "Z",
       "a", "b", "c", "d", "e", "f", "g", "h", "i", "j", "k", "l", "m",
       "n", "o", "p", "q", "r", "s", "t", "u", "v", "w", "x", "y", "z",
       "0", "1", "2", "3", "4", "5", "6", "7", "8", "9", "+", "/" >>

\* the lookup table: the index of a character of the alphabet, 0 for any other
lookup(c) ==
    IF \E n \in 1..64 : chars[n] = c THEN (CHOOSE n \in 1..64 : chars[n] = c) - 1 ELSE 0

\* byte p of the decoded buffer
DecodedByte(base64, p) ==
    LET q == 4 * (p \div 3)
        encoded1 == lookup(base64[q + 1])
        encoded2 == lookup(base64[q + 2])
        encoded3 == lookup(base64[q + 3])
        encoded4 == lookup(base64[q + 4])
    IN  CASE p % 3 = 0 -> ((encoded1 * 4) + (encoded2 \div 16)) % 256
          [] p % 3 = 1 -> (((encoded2 % 16) * 16) + (encoded3 \div 4)) % 256
          [] OTHER -> (((encoded3 % 4) * 64) + (encoded4 % 64)) % 256

Base64Decode(base64) ==
    LET len == Len(base64)
        bufferLength ==
            (len * 3) \div 4
            - (IF len > 0 /\ base64[len] = "=" THEN 1 ELSE 0)
            - (IF len > 1 /\ base64[len - 1] = "=" THEN 1 ELSE 0)
    IN  [n \in 1..bufferLength |-> DecodedByte(base64, n - 1)]

-----------------------------------------------------------------------------
(* The driver: constructor, connect, _setup, the monitor callback,          *)
(* the onDisconnected callback and isConnected, Giiker.js lines 143-305     *)

\* bytes 0-15 of the frame of a solved cube
SolvedFrame ==
    <<18, 52, 86, 120, 51, 51, 51, 51, 18, 52, 86, 120, 154, 188, 0, 0>>

\* characteristic values the cube delivers: the solved cube with an empty move
\* log, the solved cube after R', and a scrambled cube with two logged moves
SolvedValue ==
    << "E", "j", "R", "W", "e", "D", "M", "z", "M", "z", "M", "S",
       "N", "F", "Z", "4", "m", "r", "w", "A", "A", "A", "=", "=" >>

SolvedMovedValue ==
    << "E", "j", "R", "W", "e", "D", "M", "z", "M", "z", "M", "S",
       "N", "F", "Z", "4", "m", "r", "w", "A", "A", "F", "M", "=" >>

TurnedValue ==
    << "E", "j", "S", "F", "Z", "z", "M", "z", "E", "i", "E", "S",
       "N", "J", "Z", "4", "W", "r", "w", "k", "k", "F", "M", "R" >>

Values == {SolvedValue, SolvedMovedValue, TurnedValue}

\* the state after the constructor
Constructed ==
    /\ _isConnected = FALSE
    /\ _state = <<>>
    /\ connected = undefined
    /\ _firstStateFlag = TRUE
    /\ valuedCharacteristic = <<>>
    /\ emitted = <<>>
    /\ notifications = <<>>

Init ==
    /\ Constructed
    /\ pc = "constructed"
    /\ args = <<>>
    /\ result = <<>>
    /\ ops = 0

\* emit(label, arg): the call is recorded with the listeners' first argument,
\* <<m>> for a value m and <<>> for undefined or none
emit(label, arg) == emitted' = Append(emitted, <<label, arg>>)

\* moves[0]: <<>> when the move log is empty
FirstMove(moves) == IF moves = <<>> THEN <<>> ELSE <<moves[1]>>

\* connect(): this._device.connect() is pending
Connect ==
    /\ pc = "constructed"
    /\ pc' = "connecting"
    /\ UNCHANGED <<_state, _isConnected, connected, _firstStateFlag,
                   valuedCharacteristic, emitted, notifications, args, result, ops>>

\* the first then: emit "connected", start the discovery
DeviceConnected ==
    /\ pc = "connecting"
    /\ emit("connected", <<>>)
    /\ pc' = "discovering"
    /\ UNCHANGED <<_state, _isConnected, connected, _firstStateFlag,
                   valuedCharacteristic, notifications, args, result, ops>>

\* the second then, lines 169-171, and _setup up to its first await, line 192:
\* this._device.services() is pending. A rejection of _setup from here on is
\* not caught: the second then does not return _setup's promise
Discovered ==
    /\ pc = "discovering"
    /\ pc' = "await services"
    /\ UNCHANGED <<_state, _isConnected, connected, _firstStateFlag,
                   valuedCharacteristic, emitted, notifications, args, result, ops>>

\* lines 192-199: _services, _stateService and _infoService are assigned;
\* this._stateService.characteristics() is pending
ServicesResolved ==
    /\ pc = "await services"
    /\ pc' = "await state characteristics"
    /\ UNCHANGED <<_state, _isConnected, connected, _firstStateFlag,
                   valuedCharacteristic, emitted, notifications, args, result, ops>>

\* lines 199-200: _stateServiceCharacteristics is assigned;
\* this._infoService.characteristics() is pending
StateCharacteristicsResolved ==
    /\ pc = "await state characteristics"
    /\ pc' = "await info characteristics"
    /\ UNCHANGED <<_state, _isConnected, connected, _firstStateFlag,
                   valuedCharacteristic, emitted, notifications, args, result, ops>>

\* lines 200-206: _infoServiceCharacteristics and _cubeStateCharacteristic are
\* assigned; this._cubeStateCharacteristic.read() is pending
InfoCharacteristicsResolved ==
    /\ pc = "await info characteristics"
    /\ pc' = "await read"
    /\ UNCHANGED <<_state, _isConnected, connected, _firstStateFlag,
                   valuedCharacteristic, emitted, notifications, args, result, ops>>

\* lines 206-240, one synchronous step once read() resolves with `value`: the
\* value is decoded and parsed into this._state, the monitor and onDisconnected
\* callbacks are registered and this.connected is set
Setup(value) ==
    /\ pc = "await read"
    /\ valuedCharacteristic' = value
    /\ _state' = _parseCubeValue(Base64Decode(value)).state
    /\ connected' = TRUE
    /\ pc' = "monitoring"
    /\ UNCHANGED <<_isConnected, _firstStateFlag, emitted, notifications,
                   args, result, ops>>

\* one of the awaits of _setup rejects, or a service or characteristic is not
\* found and the next call throws: _setup stops there with an unhandled
\* rejection; the catch of connect() does not run and no field is written
SetupAbandoned ==
    /\ pc \in {"await services", "await state characteristics",
               "await info characteristics", "await read"}
    /\ pc' = "abandoned"
    /\ UNCHANGED <<_state, _isConnected, connected, _firstStateFlag,
                   valuedCharacteristic, emitted, notifications, args, result, ops>>

\* the catch, lines 172-176: the connection or the discovery was rejected;
\* the error is logged and disconnect() cancels the connection
ConnectFailed ==
    /\ pc \in {"connecting", "discovering"}
    /\ pc' = "failed"
    /\ UNCHANGED <<_state, _isConnected, connected, _firstStateFlag,
                   valuedCharacteristic, emitted, notifications, args, result, ops>>

\* the 'fake move event' test without the first-notification flag
IsFakeMoveAnyTime(value) == valuedCharacteristic = value

\* line 223: the 'fake move event' test
IsFakeMove(value) == _firstStateFlag /\ valuedCharacteristic = value

\* the stored state patched: the edge orientations of the previous state kept
MonitoredStatePatched(value) ==
    [_parseCubeValue(Base64Decode(value)).state EXCEPT
        !.edgeOrientations = _state.edgeOrientations]

\* lines 230-231: the state the callback stores for a value
MonitoredState(value) == _parseCubeValue(Base64Decode(value)).state

\* the monitor callback, lines 215-233
Monitor(error, value) ==
    /\ pc = "monitoring"
    /\ Len(notifications) < MaxNotifications
    /\ notifications' = Append(notifications, [error |-> error, value |-> value])
    /\ IF error THEN
           UNCHANGED <<_firstStateFlag, _state, emitted>>
       ELSE IF IsFakeMove(value) THEN
           /\ _firstStateFlag' = FALSE
           /\ UNCHANGED <<_state, emitted>>
       ELSE
           /\ _firstStateFlag' = FALSE
           /\ _state' = MonitoredState(value)
           /\ emit("move", FirstMove(_parseCubeValue(Base64Decode(value)).moves))
    /\ UNCHANGED <<pc, _isConnected, connected, valuedCharacteristic, args, result, ops>>

\* the onDisconnected callback, lines 236-238
Disconnected ==
    /\ pc = "monitoring"
    /\ emit("disconnected", <<>>)
    /\ pc' = "disconnected"
    /\ UNCHANGED <<_state, _isConnected, connected, _firstStateFlag,
                   valuedCharacteristic, notifications, args, result, ops>>

\* isConnected(), lines 303-305
isConnected == _isConnected

Next ==
    \/ Connect
    \/ DeviceConnected
    \/ ConnectFailed
    \/ Discovered
    \/ ServicesResolved
    \/ StateCharacteristicsResolved
    \/ InfoCharacteristicsResolved
    \/ \E value \in Values : Setup(value)
    \/ SetupAbandoned
    \/ \E value \in Values : Monitor(FALSE, value)
    \/ Monitor(TRUE, <<>>)
    \/ Disconnected

Spec == Init /\ [][Next]_vars

-----------------------------------------------------------------------------
(* _parseMove applied to every pair of nibbles *)

Nibbles == 0..15

MoveInit ==
    /\ Constructed
    /\ pc = "call _parseMove"
    /\ args \in Nibbles \X Nibbles
    /\ result = <<>>
    /\ ops = 0

CallParseMove ==
    /\ pc = "call _parseMove"
    /\ result' = Returns(_parseMove(args[1], args[2]))
    /\ pc' = "return"
    /\ UNCHANGED <<_state, driverVars, args, ops>>

MoveNext == CallParseMove

MoveSpec == MoveInit /\ [][MoveNext]_vars

-----------------------------------------------------------------------------
(* _mapCornerColors applied to every home colour list, nibble and slot *)

CornerInit ==
    /\ Constructed
    /\ pc = "call _mapCornerColors"
    /\ args \in {cornerColors[n] : n \in 1..8} \X Nibbles \X (0..7)
    /\ result = <<>>
    /\ ops = 0

CallMapCornerColors ==
    /\ pc = "call _mapCornerColors"
    /\ result' = Returns(_mapCornerColors(args[1], args[2], args[3]))
    /\ pc' = "return"
    /\ UNCHANGED <<_state, driverVars, args, ops>>

CornerNext == CallMapCornerColors

CornerSpec == CornerInit /\ [][CornerNext]_vars

-----------------------------------------------------------------------------
(* _parseCubeValue applied to frames of every length up to MaxFrameLen *)

\* the move log of the frames: R', B, L2', F2, ...
LogBytes == <<83, 17, 57, 98>>

BaseFrame ==
    [n \in 1..MaxFrameLen |->
        IF n <= 16 THEN SolvedFrame[n] ELSE LogBytes[((n - 17) % 4) + 1]]

\* every prefix of the base frame with one byte replaced by any byte
FrameInputs ==
    {SubSeq([BaseFrame EXCEPT ![at] = byte], 1, len) :
        at \in 1..MaxFrameLen, byte \in 0..255, len \in 0..MaxFrameLen}

FrameInit ==
    /\ Constructed
    /\ pc = "call _parseCubeValue"
    /\ args \in {<<frame>> : frame \in FrameInputs}
    /\ result = <<>>
    /\ ops = 0

CallParseCubeValue ==
    /\ pc = "call _parseCubeValue"
    /\ result' = Returns(_parseCubeValue(args[1]))
    /\ pc' = "return"
    /\ UNCHANGED <<_state, driverVars, args, ops>>

FrameNext == CallParseCubeValue

FrameSpec == FrameInit /\ [][FrameNext]_vars

-----------------------------------------------------------------------------
(* get stateString read on cubes: every cyclic shift of the pieces of the   *)
(* solved cube, followed by at most MaxOps swaps, twists and flips           *)

Solved == _parseCubeValue(SolvedFrame).state

\* the pieces moved round by n slots: a permutation of the corners and of the edges
Shifted(n) ==
    [Solved EXCEPT
        !.cornerPositions = [i \in 1..8 |-> Solved.cornerPositions[((i - 1 + n) % 8) + 1]],
        !.edgePositions = [i \in 1..12 |-> Solved.edgePositions[((i - 1 + n) % 12) + 1]]]

CubeInit ==
    /\ _isConnected = FALSE
    /\ connected = undefined
    /\ _firstStateFlag = TRUE
    /\ valuedCharacteristic = <<>>
    /\ emitted = <<>>
    /\ notifications = <<>>
    /\ \E n \in 0..23 : _state = Shifted(n)
    /\ pc = "get stateString"
    /\ args = <<>>
    /\ result = stateString(_state)
    /\ ops = 0

Swap(arr, i, j) == [arr EXCEPT ![i] = arr[j], ![j] = arr[i]]

\* the cube changed to `next`, and stateString read again
Change(next) ==
    /\ pc = "get stateString"
    /\ ops < MaxOps
    /\ ops' = ops + 1
    /\ _state' = next
    /\ result' = stateString(next)
    /\ UNCHANGED <<pc, driverVars, args>>

\* the pieces of two neighbouring corner slots exchanged
SwapCorners(i) ==
    Change([_state EXCEPT !.cornerPositions = Swap(@, i, (i % 8) + 1)])

TwistCorner(i, orientation) ==
    /\ _state.cornerOrientations[i] # orientation
    /\ Change([_state EXCEPT !.cornerOrientations[i] = orientation])

\* the pieces of two neighbouring edge slots exchanged
SwapEdges(i) ==
    Change([_state EXCEPT !.edgePositions = Swap(@, i, (i % 12) + 1)])

FlipEdge(i) ==
    Change([_state EXCEPT !.edgeOrientations[i] = ~@])

CubeNext ==
    \/ \E i \in 1..8 : SwapCorners(i)
    \/ \E i \in 1..8, orientation \in {1, 2, 3} : TwistCorner(i, orientation)
    \/ \E i \in 1..12 : SwapEdges(i)
    \/ \E i \in 1..12 : FlipEdge(i)

CubeSpec == CubeInit /\ [][CubeNext]_vars

-----------------------------------------------------------------------------
(* Properties *)

Letters == {"U", "R", "F", "D", "L", "B"}

IsPermutation(arr, size) == Len(arr) = size /\ {arr[n] : n \in 1..size} = 1..size

WellFormed(s) ==
    /\ IsPermutation(s.cornerPositions, 8)
    /\ IsPermutation(s.edgePositions, 12)
    /\ Len(s.cornerOrientations) = 8
    /\ \A n \in 1..8 : s.cornerOrientations[n] \in {1, 2, 3}
    /\ Len(s.edgeOrientations) = 12
    /\ \A n \in 1..12 : s.edgeOrientations[n] \in BOOLEAN

\* C1: for every cube state whose corner and edge positions are permutations of
\* 1..8 and 1..12, whose corner orientations are in {1,2,3} and whose 12 edge
\* orientations are booleans, stateString has exactly 54 characters, each one of
\* U, R, F, D, L, B.
FaceletStringShape ==
    (pc = "get stateString" /\ WellFormed(_state)) =>
        /\ result.error = "none"
        /\ Len(result.value) = 54
        /\ \A n \in 1..54 : result.value[n] \in Letters

\* a scrambled cube: pieces away from home, a twisted corner, and its string read
FaceletStringShapeWitness ==
    /\ pc = "get stateString"
    /\ ops >= 1
    /\ WellFormed(_state)
    /\ _state.cornerPositions[1] # 1
    /\ \E n \in 1..8 : _state.cornerOrientations[n] # 3
    /\ result.error = "none"
    /\ Len(result.value) = 54

SolvedFixture ==
    [cornerPositions |-> <<1, 2, 3, 4, 5, 6, 7, 8>>,
     cornerOrientations |-> <<3, 3, 3, 3, 3, 3, 3, 3>>,
     edgePositions |-> <<1, 2, 3, 4, 5, 6, 7, 8, 9, 10, 11, 12>>,
     edgeOrientations |-> [n \in 1..12 |-> FALSE]]

\* C2: for the solved state the facelet string is nine U, nine R, nine F, nine D,
\* nine L and nine B, in that order.
SolvedFaceletString ==
    (pc = "get stateString" /\ _state = SolvedFixture) =>
        /\ result.error = "none"
        /\ result.value = [n \in 1..54 |-> <<"U", "R", "F", "D", "L", "B">>[((n - 1) \div 9) + 1]]

\* the string of the solved cube has been read
SolvedFaceletStringWitness ==
    /\ pc = "get stateString"
    /\ _state = SolvedFixture
    /\ result.error = "none"
    /\ result.value[1] = "U"
    /\ result.value[54] = "B"

\* the inverse parser of the notation: the (face, amount) pairs it can denote
NotationSuffix(amount) ==
    CASE amount = 1 -> ""
      [] amount = 2 -> "2"
      [] amount = -1 -> "'"
      [] amount = -2 -> "2'"

ParseNotation(notation) ==
    {fa \in Letters \X {1, 2, -1, -2} : fa[1] \o NotationSuffix(fa[2]) = notation}

\* C3: for every face nibble in 1..6 and turn nibble in {1,2,3,9}, _parseMove
\* returns the face faces[faceNibble-1], an amount in {1,2,-1,-2} and a notation
\* that parses back to exactly that face and amount; (5,3) gives R, -1, "R'".
MoveRoundTrip ==
    (pc = "return" /\ args[1] \in 1..6 /\ args[2] \in {1, 2, 3, 9}) =>
        /\ result.error = "none"
        /\ result.value.face = faces[args[1]]
        /\ result.value.amount \in {1, 2, -1, -2}
        /\ ParseNotation(result.value.notation)
               = {<<result.value.face, result.value.amount>>}
        /\ args = <<5, 3>> =>
               result.value = [face |-> "R", amount |-> -1, notation |-> "R'"]

\* byte 0x53 has been decoded
MoveRoundTripWitness ==
    /\ pc = "return"
    /\ args = <<5, 3>>
    /\ result.value.notation = "R'"

\* C4: for every pair of nibbles with the face nibble outside 1..6 or the turn
\* nibble outside {1,2,3,9}, _parseMove fails with NibbleDomainError and returns
\* no move.
MoveDomainError ==
    (pc = "return" /\ (args[1] \notin 1..6 \/ args[2] \notin {1, 2, 3, 9})) =>
        result.error = "NibbleDomainError"

\* C5: decoding a frame of fewer than 16 bytes fails with FrameLengthError and
\* yields no cube state.
FrameLengthError ==
    (pc = "return" /\ Len(args[1]) < 16) => result.error = "FrameLengthError"

\* C6: for every corner slot and every raw orientation outside {1,2,3},
\* _mapCornerColors fails with ProjectionError and returns no colour list.
CornerProjectionError ==
    (pc = "return" /\ args[2] \notin {1, 2, 3}) => result.error = "ProjectionError"

\* bit k of a byte, bit 7 being the most significant
BitOf(byte, k) == (byte \div (2 ^ k)) % 2 = 1

\* C7: for every frame of n >= 16 bytes, _parseCubeValue returns 8 corner
\* positions, 8 corner orientations, 12 edge positions, 12 edge orientations and
\* n-16 moves in byte order; edge orientation flag k is read most significant bit
\* first from byte 14, then from byte 15.
FrameLayout ==
    (pc = "return" /\ Len(args[1]) >= 16) =>
        LET frame == args[1]
            decoded == result.value
        IN  /\ result.error = "none"
            /\ Len(decoded.state.cornerPositions) = 8
            /\ Len(decoded.state.cornerOrientations) = 8
            /\ Len(decoded.state.edgePositions) = 12
            /\ Len(decoded.state.edgeOrientations) = 12
            /\ Len(decoded.moves) = Len(frame) - 16
            /\ \A k \in 1..(Len(frame) - 16) :
                   decoded.moves[k] = _parseMove(frame[16 + k] \div 16, frame[16 + k] % 16)
            /\ \A k \in 0..11 :
                   decoded.state.edgeOrientations[k + 1]
                       = BitOf(frame[15 + (k \div 8)], 7 - (k % 8))

\* a frame with two logged moves and the last flag of byte 15 set has been decoded
FrameLayoutWitness ==
    /\ pc = "return"
    /\ Len(args[1]) = 18
    /\ Len(result.value.moves) = 2
    /\ result.value.state.edgeOrientations[12]
    /\ ~result.value.state.edgeOrientations[1]

\* the notifications delivered without error
Delivered == SelectSeq(notifications, LAMBDA n : ~n.error)

\* the most recent frame delivered without error, the initial read if none
LastFrame ==
    IF Delivered = <<>> THEN valuedCharacteristic ELSE Delivered[Len(Delivered)].value

\* C8: after the initial read and any sequence of notifications, this._state is
\* the full decode of the most recent frame delivered without error (the initial
\* read if there was none).
LastWriteWins ==
    pc \in {"monitoring", "disconnected"} =>
        _state = _parseCubeValue(Base64Decode(LastFrame)).state

\* a frame other than the initial read was delivered, then an error notification
LastWriteWinsWitness ==
    /\ pc = "monitoring"
    /\ Len(notifications) >= 2
    /\ notifications[Len(notifications)].error
    /\ Delivered # <<>>
    /\ _state # _parseCubeValue(Base64Decode(valuedCharacteristic)).state

\* C9: isConnected() returns false before connect(), and true in every state
\* after _setup has completed and before the device disconnects.
IsConnectedReportsConnection ==
    /\ pc = "constructed" => isConnected = FALSE
    /\ pc = "monitoring" => isConnected = TRUE

\* the 'move' events emitted, in order
MoveEvents == SelectSeq(emitted, LAMBDA e : e[1] = "move")

\* the notifications that must produce a 'move' event: those delivered without
\* error, but for the first one when it repeats the initial read
Kept ==
    IF Delivered # <<>> /\ Delivered[1].value = valuedCharacteristic
    THEN Tail(Delivered)
    ELSE Delivered

\* C10: of the notifications delivered without error, only the first one is
\* dropped, and only when its value equals the initial read; every other one
\* emits exactly one 'move' event, in arrival order; error notifications emit
\* none and leave the first-notification flag set.
FakeMoveSuppression ==
    /\ MoveEvents =
           [k \in 1..Len(Kept) |->
               <<"move", FirstMove(_parseCubeValue(Base64Decode(Kept[k].value)).moves)>>]
    /\ _firstStateFlag = (Delivered = <<>>)

\* an error, then the initial value twice: the first is dropped, the second emitted
FakeMoveSuppressionWitness ==
    /\ pc = "monitoring"
    /\ Len(notifications) = 3
    /\ notifications[1].error
    /\ ~notifications[2].error /\ notifications[2].value = valuedCharacteristic
    /\ ~notifications[3].error /\ notifications[3].value = valuedCharacteristic
    /\ Len(MoveEvents) = 1

====
